---- MODULE Spec2Model ----
(***************************************************************************)
(* Model of parse_plist_value (src/parse_music_library.py), the recursive  *)
(* decoder that turns an ElementTree property-list element into nested     *)
(* Python values.                                                          *)
(*                                                                         *)
(* Python values are tagged records [py, v]; text is a sequence of         *)
(* one-character strings, so that int() is computed from the characters.   *)
(* An exception leaving the function is the value Raise(..).               *)
(***************************************************************************)
EXTENDS Integers, Sequences, FiniteSets, TLC

VARIABLES
    element,    \* the Element handed to parse_plist_value (or NoElement)
    record,     \* the Record handed to the encoder (or NoRecord)
    result,     \* what the call returned or raised (or NoResult)
    pc,         \* position of the driver
    stack,      \* call stack of the step-by-step execution
    ret,        \* value returned by the frame that finished last
    trace,      \* paths of the nodes parse_plist_value was called on, in order
    steps,      \* statements executed so far by the step-by-step execution
    tracks,     \* the list of track dicts handed to generate_music_data
    music_data, \* the music data: generate_music_data's result, music-data.json
    loaded,     \* history: music-data.json as update_media_paths loaded it
    files       \* the files of the media directories, as <<directory, name>>

vars == <<element, record, result, pc, stack, ret, trace, steps,
          tracks, music_data, loaded, files>>

----------------------------------------------------------------------------
(* Bounds of the model.                                                    *)

MaxNodes == 4
MaxChildren == 6
MaxEntries == 2
StepMaxNodes == 4
MaxTracks == 3
MaxPlayCount == 3
MaxExtra == 1
MaxGenres == 12

----------------------------------------------------------------------------
(* Python values.                                                          *)

PyNone == [py |-> "None", v |-> <<>>]
PyStr(s) == [py |-> "str", v |-> s]
PyInt(n) == [py |-> "int", v |-> n]
PyBool(b) == [py |-> "bool", v |-> b]
PyList(items) == [py |-> "list", v |-> items]
PyDict(items) == [py |-> "dict", v |-> items]
Raise(exc) == [py |-> "raise", v |-> exc]

IsRaise(x) == x.py = "raise"

\* bool(text) for a str-or-None: None and '' are falsy.
Truthy(text) == text.py = "str" /\ text.v # <<>>

\* `text or ''`
OrEmptyKeepsNone(text) == text
OrEmpty(text) == IF Truthy(text) THEN text ELSE PyStr(<<>>)

----------------------------------------------------------------------------
(* int(str): surrounding whitespace stripped, an optional sign, then       *)
(* decimal digits, single underscores allowed between digits.              *)

Digits == {"0", "1", "2", "3", "4", "5", "6", "7", "8", "9"}
Whitespace == {" "}

DigitValue(c) ==
    CASE c = "0" -> 0 [] c = "1" -> 1 [] c = "2" -> 2 [] c = "3" -> 3
      [] c = "4" -> 4 [] c = "5" -> 5 [] c = "6" -> 6 [] c = "7" -> 7
      [] c = "8" -> 8 [] c = "9" -> 9

RECURSIVE LStrip(_)
LStrip(s) ==
    IF s # <<>> /\ Head(s) \in Whitespace THEN LStrip(Tail(s)) ELSE s

RECURSIVE RStrip(_)
RStrip(s) ==
    IF s # <<>> /\ s[Len(s)] \in Whitespace
    THEN RStrip(SubSeq(s, 1, Len(s) - 1))
    ELSE s

\* Scan the digits left to right. prev is "start", "digit" or "underscore".
RECURSIVE ScanDigits(_, _, _)
ScanDigits(s, acc, prev) ==
    IF s = <<>>
    THEN IF prev = "digit" THEN PyInt(acc) ELSE Raise("ValueError")
    ELSE IF Head(s) \in Digits
         THEN ScanDigits(Tail(s), acc * 10 + DigitValue(Head(s)), "digit")
         ELSE IF Head(s) = "_" /\ prev = "digit"
              THEN ScanDigits(Tail(s), acc, "underscore")
              ELSE Raise("ValueError")

int(s) ==
    LET t == RStrip(LStrip(s))
        signed == t # <<>> /\ Head(t) \in {"+", "-"}
        body == IF signed THEN Tail(t) ELSE t
        magnitude == ScanDigits(body, 0, "start")
    IN  IF IsRaise(magnitude) THEN magnitude
        ELSE IF signed /\ Head(t) = "-" THEN PyInt(0 - magnitude.v)
        ELSE magnitude

\* `int(element.text) if element.text else 0`
IntegerValueSwallow(text) ==
    IF Truthy(text) /\ ~IsRaise(int(text.v)) THEN int(text.v) ELSE PyInt(0)
IntegerValue(text) == IF Truthy(text) THEN int(text.v) ELSE PyInt(0)

----------------------------------------------------------------------------
(* dict assignment result[key] = value on an insertion-ordered dict, kept  *)
(* as a sequence of [key, value] entries.                                  *)

HasKey(items, key) == \E j \in 1..Len(items) : items[j].key = key

SetItemMoveToEnd(items, key, value) ==
    SelectSeq(items, LAMBDA e : e.key # key) \o <<[key |-> key, value |-> value]>>
SetItemFirstWins(items, key, value) ==
    IF HasKey(items, key) THEN items
    ELSE Append(items, [key |-> key, value |-> value])
SetItem(items, key, value) ==
    IF HasKey(items, key)
    THEN [j \in 1..Len(items) |->
            IF items[j].key = key THEN [key |-> key, value |-> value] ELSE items[j]]
    ELSE Append(items, [key |-> key, value |-> value])

----------------------------------------------------------------------------
(* parse_plist_value.  The cursor i is 0-based as in the source; TLA+      *)
(* sequences are 1-based, so children[i] of the source is children[i + 1]. *)

\* `key_elem.tag == 'key' and i + 1 < len(children)`
IsPairAt(children, i) == children[i + 1].tag = "key" /\ i + 1 < Len(children)

\* `i += 2` after a pair, `i += 1` otherwise
NextCursorByOne(children, i) == i + 1
NextCursorStuck(children, i) == IF IsPairAt(children, i) THEN i + 2 ELSE i
NextCursor(children, i) == IF IsPairAt(children, i) THEN i + 2 ELSE i + 1

\* An exception raised by a nested call leaves the enclosing call too.
PropagatesSwallow(x) == FALSE
Propagates(x) == IsRaise(x)

\* the else branch of the loop leaves `result` as it is
SkipChildKeepsKey(items, child) ==
    IF child.tag = "key" THEN SetItem(items, child.text, PyNone) ELSE items
SkipChild(items, child) == items

\* the list comprehension collects every value, None included
CollectSkipNone(items, value) == IF value = PyNone THEN items ELSE Append(items, value)
Collect(items, value) == Append(items, value)

\* the final `return None`, reached by every tag no branch names
UnknownTagRaises(elem) == Raise("ValueError")
UnknownTag(elem) == PyNone

RECURSIVE parse_plist_value(_)
RECURSIVE DictLoop(_, _, _)
RECURSIVE ListComprehension(_, _, _)

\* the while loop of the dict branch, from cursor i with `result` built so far
DictLoop(children, i, items) ==
    IF ~(i < Len(children)) THEN PyDict(items)
    ELSE IF IsPairAt(children, i)
         THEN LET key == children[i + 1].text
                  value == parse_plist_value(children[i + 2])
              IN  IF Propagates(value) THEN value
                  ELSE DictLoop(children, NextCursor(children, i),
                                SetItem(items, key, value))
         ELSE DictLoop(children, NextCursor(children, i),
                       SkipChild(items, children[i + 1]))

\* `[parse_plist_value(child) for child in element]`, from child n (1-based)
ListComprehension(children, n, items) ==
    IF n > Len(children) THEN PyList(items)
    ELSE LET value == parse_plist_value(children[n])
         IN  IF Propagates(value) THEN value
             ELSE ListComprehension(children, n + 1, Collect(items, value))

parse_plist_value(elem) ==
    CASE elem.tag = "string" -> OrEmpty(elem.text)
      [] elem.tag = "integer" -> IntegerValue(elem.text)
      [] elem.tag = "true" -> PyBool(TRUE)
      [] elem.tag = "false" -> PyBool(FALSE)
      [] elem.tag = "date" -> OrEmpty(elem.text)
      [] elem.tag = "dict" -> DictLoop(elem.children, 0, <<>>)
      [] elem.tag = "array" -> ListComprehension(elem.children, 1, <<>>)
      [] OTHER -> UnknownTag(elem)

----------------------------------------------------------------------------
(* Input elements.  An Element has a tag, a text (None or a str) and an    *)
(* ordered sequence of child Elements.                                     *)

Node(tag, text, children) == [tag |-> tag, text |-> text, children |-> children]
Leaf(tag, text) == Node(tag, text, <<>>)

ContainerTags == {"dict", "array"}

\* Texts tried on a childless element at the top level.
SampleTexts ==
    { PyNone, PyStr(<<>>),
      PyStr(<<"4", "2">>), PyStr(<<"0", "0", "7">>), PyStr(<<"-", "7">>),
      PyStr(<<"+", "7">>), PyStr(<<" ", "4", "2", " ">>), PyStr(<<"4", "_", "2">>),
      PyStr(<<"a", "b", "c">>), PyStr(<<"4", "a">>), PyStr(<<" ">>),
      PyStr(<<"4", ".", "0">>), PyStr(<<"_", "4">>), PyStr(<<"4", "_", "_", "2">>),
      PyStr(<<"4", "_">>), PyStr(<<"-">>), PyStr(<<"4", " ", "2">>) }

TopLeaves ==
    { Leaf(tag, text) :
        tag \in {"string", "integer", "true", "false", "date", "key", "data"},
        text \in SampleTexts }

\* Childless elements used inside the small trees.
ChildLeaves ==
    { Leaf("key", PyStr(<<"A">>)), Leaf("key", PyStr(<<"B">>)), Leaf("key", PyNone),
      Leaf("string", PyStr(<<"x">>)), Leaf("string", PyNone),
      Leaf("integer", PyStr(<<"4", "2">>)), Leaf("integer", PyStr(<<"a", "b", "c">>)),
      Leaf("integer", PyNone), Leaf("true", PyNone), Leaf("data", PyStr(<<"x">>)) }

\* Childless elements used as the children of the wide dicts.
WideLeaves ==
    { Leaf("key", PyStr(<<"A">>)), Leaf("key", PyStr(<<"B">>)),
      Leaf("string", PyStr(<<"x">>)), Leaf("integer", PyStr(<<"4", "2">>)) }

\* Childless elements used in the step-by-step execution.
StepLeaves ==
    { Leaf("key", PyStr(<<"A">>)), Leaf("key", PyStr(<<"B">>)),
      Leaf("string", PyStr(<<"x">>)), Leaf("integer", PyStr(<<"4", "2">>)),
      Leaf("integer", PyStr(<<"a", "b", "c">>)), Leaf("data", PyNone) }

\* The elements without children: the leaves and the empty containers.
Childless(leaves) == leaves \cup { Node(tag, PyNone, <<>>) : tag \in ContainerTags }

\* The number of containers on the path from t down its last children.
RECURSIVE SpineDepth(_)
SpineDepth(t) ==
    IF t.tag \notin ContainerTags THEN 0
    ELSE IF t.children = <<>> THEN 1
    ELSE 1 + SpineDepth(t.children[Len(t.children)])

\* t with `new` added as the last child of the d-th container on that path.
RECURSIVE AppendAtDepth(_, _, _)
AppendAtDepth(t, d, new) ==
    IF d = 1 THEN [t EXCEPT !.children = Append(@, new)]
    ELSE [t EXCEPT !.children[Len(t.children)] = AppendAtDepth(@, d - 1, new)]

\* All trees of exactly n elements whose childless elements are in
\* Childless(leaves): each is a tree of n - 1 elements plus its last element
\* in document order.
RECURSIVE TreesOfSize(_, _)
TreesOfSize(leaves, n) ==
    IF n = 1 THEN Childless(leaves)
    ELSE LET smaller == TreesOfSize(leaves, n - 1)
         IN  { AppendAtDepth(c[1], c[2], c[3]) :
                 c \in { c \in smaller \X (1..(n - 1)) \X Childless(leaves) :
                           c[2] <= SpineDepth(c[1]) } }

RECURSIVE TreesUpTo(_, _)
TreesUpTo(leaves, n) ==
    IF n = 0 THEN {} ELSE TreesUpTo(leaves, n - 1) \cup TreesOfSize(leaves, n)

\* elem is a tree of at most n elements (n >= 2).
IsTreeUpTo(elem, leaves, n) ==
    \/ elem \in TreesUpTo(leaves, n - 1)
    \/ \E t \in TreesOfSize(leaves, n - 1), d \in 1..(n - 1), new \in Childless(leaves) :
          d <= SpineDepth(t) /\ elem = AppendAtDepth(t, d, new)

RECURSIVE SeqsUpTo(_, _)
SeqsUpTo(S, n) ==
    IF n = 0 THEN { <<>> }
    ELSE LET shorter == SeqsUpTo(S, n - 1)
         IN  shorter \cup { Append(q, x) : q \in shorter, x \in S }

WideDicts == { Node("dict", PyNone, f) : f \in SeqsUpTo(WideLeaves, MaxChildren) }

\* Elements of a scalar tag that nevertheless have text and a child.
ScalarsWithChildren ==
    { Node(tag, text, <<child>>) :
        tag \in {"string", "integer", "true", "false", "date"},
        text \in { PyNone, PyStr(<<"x">>), PyStr(<<"4", "2">>) },
        child \in { Leaf("string", PyStr(<<"x">>)),
                    Leaf("integer", PyStr(<<"a", "b", "c">>)) } }

\* The elements parse_plist_value is called on: every sample leaf, every tree
\* of at most MaxNodes elements, every dict of at most MaxChildren leaves.
IsInputElement(elem) ==
    \/ elem \in TopLeaves
    \/ elem \in ScalarsWithChildren
    \/ IsTreeUpTo(elem, ChildLeaves, MaxNodes)
    \/ elem \in WideDicts

IsStepElement(elem) == IsTreeUpTo(elem, StepLeaves, StepMaxNodes)

NoElement == Node("none", PyNone, <<>>)
NoRecord == [py |-> "unset", v |-> <<>>]
NoResult == [py |-> "unset", v |-> <<>>]
NoData == [tracks |-> <<>>, albums |-> <<>>, artists |-> <<>>, genres |-> <<>>]

----------------------------------------------------------------------------
(* Records handed to an inverse encoder, and the encoder: one key node and *)
(* one value node per entry, in order.  The text of a node is written as   *)
(* markup and read back by the markup parser, which gives an element of    *)
(* empty content no text at all (None); an encoder that builds the nodes   *)
(* in memory keeps the empty text.                                         *)

DigitChar(k) ==
    CASE k = 0 -> "0" [] k = 1 -> "1" [] k = 2 -> "2" [] k = 3 -> "3"
      [] k = 4 -> "4" [] k = 5 -> "5" [] k = 6 -> "6" [] k = 7 -> "7"
      [] k = 8 -> "8" [] k = 9 -> "9"

RECURSIVE DecimalDigits(_)
DecimalDigits(n) ==
    IF n < 10 THEN <<DigitChar(n)>>
    ELSE Append(DecimalDigits(n \div 10), DigitChar(n % 10))

\* str(n)
IntToText(n) == IF n < 0 THEN <<"-">> \o DecimalDigits(0 - n) ELSE DecimalDigits(n)

EncoderKinds == {"markup", "in memory"}

ElementText(s, how) == IF s = <<>> /\ how = "markup" THEN PyNone ELSE PyStr(s)

RECURSIVE ToMarkup(_, _)
RECURSIVE EntriesToMarkup(_, _)
ToMarkup(value, how) ==
    CASE value.py = "str" -> Leaf("string", ElementText(value.v, how))
      [] value.py = "int" -> Leaf("integer", ElementText(IntToText(value.v), how))
      [] value.py = "bool" -> Leaf(IF value.v THEN "true" ELSE "false", PyNone)
      [] value.py = "list" ->
           Node("array", PyNone, [n \in 1..Len(value.v) |-> ToMarkup(value.v[n], how)])
      [] value.py = "dict" -> Node("dict", PyNone, EntriesToMarkup(value.v, how))

EntriesToMarkup(items, how) ==
    IF items = <<>> THEN <<>>
    ELSE <<Leaf("key", ElementText(Head(items).key.v, how)),
           ToMarkup(Head(items).value, how)>>
           \o EntriesToMarkup(Tail(items), how)

RecordKeys == { PyStr(<<>>), PyStr(<<"A">>), PyStr(<<"B">>) }

ScalarValues ==
    { PyStr(<<>>), PyStr(<<"x">>), PyInt(0), PyInt(42), PyInt(0 - 7),
      PyBool(TRUE), PyBool(FALSE) }

InnerValues ==
    ScalarValues
      \cup { PyList(<<>>), PyList(<<PyStr(<<"x">>)>>), PyList(<<PyInt(42), PyBool(TRUE)>>),
             PyDict(<<>>) }
      \cup { PyDict(<<[key |-> k, value |-> v]>>) :
               k \in RecordKeys, v \in { PyStr(<<"x">>), PyList(<<PyInt(42)>>) } }

RECURSIVE EntriesUpTo(_)
EntriesUpTo(n) ==
    IF n = 0 THEN { <<>> }
    ELSE LET shorter == EntriesUpTo(n - 1)
         IN  shorter \cup
               { Append(q, [key |-> k, value |-> v]) :
                   q \in shorter, k \in RecordKeys, v \in InnerValues }

InputRecords ==
    { PyDict(q) : q \in { e \in EntriesUpTo(MaxEntries) :
                            \A j, k \in 1..Len(e) : e[j].key = e[k].key => j = k } }

----------------------------------------------------------------------------
(* The driver: one call of parse_plist_value on an input element, which is *)
(* given or is the encoding of a given Record.                             *)

Init ==
    /\ \/ IsInputElement(element) /\ record = NoRecord /\ pc = "start"
       \/ element = NoElement /\ record \in InputRecords /\ pc = "encode"
    /\ result = NoResult
    /\ stack = <<>>
    /\ ret = NoResult
    /\ trace = <<>>
    /\ steps = 0
    /\ tracks = <<>>
    /\ music_data = NoData
    /\ loaded = NoData
    /\ files = {}

\* the Record is encoded to the element the decoder will be called on
Encode ==
    /\ pc = "encode"
    /\ \E how \in EncoderKinds : element' = ToMarkup(record, how)
    /\ pc' = "start"
    /\ UNCHANGED <<record, result, stack, ret, trace, steps,
                 tracks, music_data, loaded, files>>

\* library_dict = parse_plist_value(plist_dict)
Decode ==
    /\ pc = "start"
    /\ result' = parse_plist_value(element)
    /\ pc' = "decoded"
    /\ UNCHANGED <<element, record, stack, ret, trace, steps,
                 tracks, music_data, loaded, files>>

Next ==
    \/ Encode
    \/ Decode

Spec == Init /\ [][Next]_vars

----------------------------------------------------------------------------
(* The same call executed statement by statement, with the call stack made *)
(* explicit.  A frame is one activation of parse_plist_value: the node it  *)
(* was called on, that node's path from the root (child indexes, 1-based), *)
(* where it stands (kind), the cursor i, the result built so far (items),  *)
(* whether it waits for a nested call, and the child indexes (0-based, as  *)
(* in the source) it has read so far (visits).                             *)

Frame(node, path) ==
    [node |-> node, path |-> path, kind |-> "call", i |-> 0, items |-> <<>>,
     waiting |-> FALSE, visits |-> <<>>]

Top == stack[Len(stack)]
Pop == SubSeq(stack, 1, Len(stack) - 1)
ReplaceTop(frame) == [stack EXCEPT ![Len(stack)] = frame]

InitStep ==
    /\ IsStepElement(element)
    /\ record = NoRecord
    /\ result = NoResult
    /\ pc = "running"
    /\ stack = <<Frame(element, <<>>)>>
    /\ ret = NoResult
    /\ trace = <<>>
    /\ steps = 0
    /\ tracks = <<>>
    /\ music_data = NoData
    /\ loaded = NoData
    /\ files = {}

\* entry of parse_plist_value: dispatch on the tag
StepEnter ==
    /\ pc = "running" /\ stack # <<>> /\ Top.kind = "call"
    /\ trace' = Append(trace, Top.path)
    /\ steps' = steps + 1
    /\ IF Top.node.tag \in ContainerTags
       THEN /\ stack' = ReplaceTop([Top EXCEPT !.kind = Top.node.tag])
            /\ ret' = NoResult
       ELSE /\ stack' = Pop
            /\ ret' = parse_plist_value(Top.node)
    /\ UNCHANGED <<element, record, result, pc,
                 tracks, music_data, loaded, files>>

\* one test of `while i < len(children)` and the statements up to the nested
\* call, the `i += 1` of the else branch, or the `return result`
StepDictLoop ==
    /\ pc = "running" /\ stack # <<>> /\ Top.kind = "dict" /\ ~Top.waiting
    /\ steps' = steps + 1
    /\ LET children == Top.node.children
           i == Top.i
       IN  IF ~(i < Len(children))
           THEN /\ stack' = Pop
                /\ ret' = PyDict(Top.items)
           ELSE IF IsPairAt(children, i)
                THEN /\ stack' = Append(
                           ReplaceTop([Top EXCEPT !.waiting = TRUE,
                                                  !.visits = @ \o <<i, i + 1>>]),
                           Frame(children[i + 2], Append(Top.path, i + 2)))
                     /\ ret' = NoResult
                ELSE /\ stack' = ReplaceTop(
                           [Top EXCEPT !.i = NextCursor(children, i),
                                       !.items = SkipChild(@, children[i + 1]),
                                       !.visits = Append(@, i)])
                     /\ ret' = NoResult
    /\ UNCHANGED <<element, record, result, pc, trace,
                 tracks, music_data, loaded, files>>

\* the nested call of the dict branch came back: `result[key] = ...; i += 2`,
\* or its exception leaves this call too
StepDictReturn ==
    /\ pc = "running" /\ stack # <<>> /\ Top.kind = "dict" /\ Top.waiting
    /\ steps' = steps + 1
    /\ IF Propagates(ret)
       THEN stack' = Pop /\ ret' = ret
       ELSE /\ stack' = ReplaceTop(
                  [Top EXCEPT !.i = NextCursor(Top.node.children, Top.i),
                              !.items = SetItem(@, Top.node.children[Top.i + 1].text, ret),
                              !.waiting = FALSE])
            /\ ret' = NoResult
    /\ UNCHANGED <<element, record, result, pc, trace,
                 tracks, music_data, loaded, files>>

\* the list comprehension takes the next child, or returns the list
StepArrayLoop ==
    /\ pc = "running" /\ stack # <<>> /\ Top.kind = "array" /\ ~Top.waiting
    /\ steps' = steps + 1
    /\ LET children == Top.node.children
           i == Top.i
       IN  IF ~(i < Len(children))
           THEN /\ stack' = Pop
                /\ ret' = PyList(Top.items)
           ELSE /\ stack' = Append(
                      ReplaceTop([Top EXCEPT !.waiting = TRUE,
                                             !.visits = Append(@, i)]),
                      Frame(children[i + 1], Append(Top.path, i + 1)))
                /\ ret' = NoResult
    /\ UNCHANGED <<element, record, result, pc, trace,
                 tracks, music_data, loaded, files>>

\* the nested call of the list comprehension came back
StepArrayReturn ==
    /\ pc = "running" /\ stack # <<>> /\ Top.kind = "array" /\ Top.waiting
    /\ steps' = steps + 1
    /\ IF Propagates(ret)
       THEN stack' = Pop /\ ret' = ret
       ELSE /\ stack' = ReplaceTop(
                  [Top EXCEPT !.i = @ + 1,
                              !.items = Collect(@, ret),
                              !.waiting = FALSE])
            /\ ret' = NoResult
    /\ UNCHANGED <<element, record, result, pc, trace,
                 tracks, music_data, loaded, files>>

\* the outermost call returned or raised
StepFinish ==
    /\ pc = "running" /\ stack = <<>>
    /\ result' = ret
    /\ pc' = "done"
    /\ UNCHANGED <<element, record, stack, ret, trace, steps,
                 tracks, music_data, loaded, files>>

NextStep ==
    \/ StepEnter
    \/ StepDictLoop
    \/ StepDictReturn
    \/ StepArrayLoop
    \/ StepArrayReturn
    \/ StepFinish

SpecStep == InitStep /\ [][NextStep]_vars

----------------------------------------------------------------------------
(* Vocabulary of the properties.                                           *)

Decoded == pc = "decoded"
Children == element.children
WithChildren(children) == Node(element.tag, element.text, children)
Entry(key, value) == [key |-> key, value |-> value]
TextA == PyStr(<<"A">>)
TextB == PyStr(<<"B">>)
TextX == PyStr(<<"x">>)

\* The children are key/value sibling pairs: an even number of children, a key
\* node at every odd place (1-based) and its value node right after it.
WellFormedPairs(children) ==
    /\ Len(children) % 2 = 0
    /\ \A p \in 1..(Len(children) \div 2) : children[2 * p - 1].tag = "key"

NumPairs(children) == Len(children) \div 2
PairKey(children, p) == children[2 * p - 1].text
PairValue(children, p) == children[2 * p]
PairsOf(children, key) ==
    { p \in 1..NumPairs(children) : PairKey(children, p) = key }
Smallest(S) == CHOOSE x \in S : \A y \in S : x <= y
Largest(S) == CHOOSE x \in S : \A y \in S : x >= y

AllPairValuesDecode(children) ==
    \A p \in 1..NumPairs(children) : ~IsRaise(parse_plist_value(PairValue(children, p)))

\* The cursor values the dict loop takes on these children, from cursor i on.
RECURSIVE CursorPositions(_, _)
CursorPositions(children, i) ==
    IF ~(i < Len(children)) THEN {}
    ELSE {i} \cup CursorPositions(children, NextCursor(children, i))

----------------------------------------------------------------------------
\* C1 (as stated): a dict node whose children are N well-formed key/value pairs
\* decodes to a Record with exactly N entries, in source order, each entry's
\* value being the decode of the sibling right after its key node.
C1_ExactlyNEntries ==
    (Decoded /\ element.tag = "dict" /\ WellFormedPairs(Children)
       /\ AllPairValuesDecode(Children))
    => /\ result.py = "dict"
       /\ Len(result.v) = NumPairs(Children)
       /\ \A p \in 1..NumPairs(Children) :
             result.v[p] = Entry(PairKey(Children, p),
                                 parse_plist_value(PairValue(Children, p)))

\* C1 (amended): such a dict node decodes to a Record with one entry per distinct
\* key name among the N pairs (N entries when no name repeats), ordered by the
\* first occurrence of each name, each entry's value being the decode of the
\* sibling right after the last key node of that name.
C1_OneEntryPerDistinctKey ==
    (Decoded /\ element.tag = "dict" /\ WellFormedPairs(Children)
       /\ AllPairValuesDecode(Children))
    => /\ result.py = "dict"
       /\ Len(result.v) =
            Cardinality({ PairKey(Children, p) : p \in 1..NumPairs(Children) })
       /\ \A p \in 1..NumPairs(Children) :
            \E j \in 1..Len(result.v) : result.v[j].key = PairKey(Children, p)
       /\ \A j \in 1..Len(result.v) :
            /\ PairsOf(Children, result.v[j].key) # {}
            /\ result.v[j].value =
                 parse_plist_value(
                   PairValue(Children, Largest(PairsOf(Children, result.v[j].key))))
       /\ \A j, k \in 1..Len(result.v) :
            j < k => Smallest(PairsOf(Children, result.v[j].key))
                       < Smallest(PairsOf(Children, result.v[k].key))

\* Three pairs, two of them under the same name, decoded to two entries.
C1_Witness ==
    /\ Decoded /\ element.tag = "dict" /\ WellFormedPairs(Children)
    /\ NumPairs(Children) = 3
    /\ PairKey(Children, 1) = PairKey(Children, 3)
    /\ PairKey(Children, 1) # PairKey(Children, 2)
    /\ \A p \in 1..3 : PairValue(Children, p).tag # "key"
    /\ result.py = "dict" /\ Len(result.v) = 2

----------------------------------------------------------------------------
\* C2: an array node whose children all decode yields a List with one element
\* per child, element i being the decode of child i; a child with an unknown tag
\* holds its place as None.
C2_ArrayDecodesEveryChild ==
    (Decoded /\ element.tag = "array"
       /\ \A n \in 1..Len(Children) : ~IsRaise(parse_plist_value(Children[n])))
    => /\ result.py = "list"
       /\ Len(result.v) = Len(Children)
       /\ \A n \in 1..Len(Children) : result.v[n] = parse_plist_value(Children[n])
       /\ \A n \in 1..Len(Children) :
            Children[n].tag \notin
              {"string", "integer", "true", "false", "date", "dict", "array"}
            => result.v[n] = PyNone

\* An array of three children, the middle one of an unknown tag, decoded to a
\* list of three with None in the middle.
C2_Witness ==
    /\ Decoded /\ element.tag = "array" /\ Len(Children) = 3
    /\ Children[2].tag = "data"
    /\ result.py = "list" /\ Len(result.v) = 3
    /\ result.v[2] = PyNone /\ result.v[3] # PyNone

----------------------------------------------------------------------------
----------------------------------------------------------------------------
(* What it is for a text to denote a whole number: between optional        *)
(* surrounding blanks, an optional sign and then decimal digits, where a   *)
(* single underscore may separate two digits.                              *)

Blank(s, j) == s[j] = " "
FirstInk(s) == Smallest({ j \in 1..Len(s) : ~Blank(s, j) })
LastInk(s) == Largest({ j \in 1..Len(s) : ~Blank(s, j) })
HasSign(s) == s[FirstInk(s)] \in {"+", "-"}
FirstDigitPlace(s) == IF HasSign(s) THEN FirstInk(s) + 1 ELSE FirstInk(s)
DigitPlaces(s) == { j \in FirstDigitPlace(s)..LastInk(s) : s[j] \in Digits }

DenotesWholeNumber(s) ==
    /\ \E j \in 1..Len(s) : ~Blank(s, j)
    /\ FirstDigitPlace(s) <= LastInk(s)
    /\ s[FirstDigitPlace(s)] \in Digits
    /\ s[LastInk(s)] \in Digits
    /\ \A j \in FirstDigitPlace(s)..LastInk(s) :
         \/ s[j] \in Digits
         \/ s[j] = "_" /\ s[j - 1] \in Digits /\ s[j + 1] \in Digits

RECURSIVE PowerOfTen(_)
PowerOfTen(n) == IF n = 0 THEN 1 ELSE 10 * PowerOfTen(n - 1)

RECURSIVE SumOver(_, _, _)
SumOver(S, s, places) ==
    IF S = {} THEN 0
    ELSE LET j == CHOOSE x \in S : TRUE
         IN  DigitValue(s[j]) * PowerOfTen(Cardinality({ k \in places : k > j }))
               + SumOver(S \ {j}, s, places)

WholeNumber(s) ==
    LET magnitude == SumOver(DigitPlaces(s), s, DigitPlaces(s))
    IN  IF s[FirstInk(s)] = "-" THEN 0 - magnitude ELSE magnitude

\* An integer node whose text is there and does not denote a whole number.
MalformedInteger(node) ==
    /\ node.tag = "integer"
    /\ node.text.py = "str" /\ node.text.v # <<>>
    /\ ~DenotesWholeNumber(node.text.v)

KnownTags == {"string", "integer", "true", "false", "date", "dict", "array"}

----------------------------------------------------------------------------
\* C4: an integer node decodes to the whole number its text denotes, to 0 when
\* the text is empty or absent, and raises ValueError (no default) when the
\* text is there and denotes no whole number.
C4_IntegerNode ==
    (Decoded /\ element.tag = "integer")
    => IF element.text = PyNone \/ element.text = PyStr(<<>>)
       THEN result = PyInt(0)
       ELSE IF DenotesWholeNumber(element.text.v)
            THEN result = PyInt(WholeNumber(element.text.v))
            ELSE result = Raise("ValueError")

\* The integer node of text "abc" was decoded, and the call raised.
C4_Witness ==
    /\ Decoded
    /\ element = Leaf("integer", PyStr(<<"a", "b", "c">>))
    /\ result = Raise("ValueError")

----------------------------------------------------------------------------
RECURSIVE HasMalformedInteger(_)
HasMalformedInteger(node) ==
    \/ MalformedInteger(node)
    \/ \E n \in 1..Len(node.children) : HasMalformedInteger(node.children[n])

\* C5: a tree without an integer node of non-numeric text never raises, dangling
\* keys and unknown tags included; a node of a tag outside string, integer, true,
\* false, date, dict, array decodes to None at the top level, as an array
\* element and as a dict value.
C5_NeverRaises ==
    (Decoded /\ ~HasMalformedInteger(element))
    => /\ ~IsRaise(result)
       /\ element.tag \notin KnownTags => result = PyNone
       /\ element.tag = "array" =>
            \A n \in 1..Len(Children) :
               Children[n].tag \notin KnownTags => result.v[n] = PyNone
       /\ (element.tag = "dict" /\ WellFormedPairs(Children)) =>
            \A p \in 1..NumPairs(Children) :
               (/\ PairValue(Children, p).tag \notin KnownTags
                /\ p = Largest(PairsOf(Children, PairKey(Children, p))))
               => \E j \in 1..Len(result.v) :
                     result.v[j] = Entry(PairKey(Children, p), PyNone)

\* A dict with a value of an unknown tag and a dangling key decoded to {A: None}.
C5_Witness ==
    /\ Decoded
    /\ element = Node("dict", PyNone,
                      <<Leaf("key", TextA), Leaf("data", TextX), Leaf("key", TextB)>>)
    /\ result = PyDict(<<Entry(TextA, PyNone)>>)

----------------------------------------------------------------------------
\* The nodes the recursive decode is called on hold a malformed integer: the
\* node itself, a child of an array, or the value the dict cursor pairs with a
\* key.
RECURSIVE ReachesMalformedInteger(_)
ReachesMalformedInteger(node) ==
    \/ MalformedInteger(node)
    \/ /\ node.tag = "array"
       /\ \E n \in 1..Len(node.children) : ReachesMalformedInteger(node.children[n])
    \/ /\ node.tag = "dict"
       /\ \E i \in CursorPositions(node.children, 0) :
             /\ i + 2 <= Len(node.children)
             /\ node.children[i + 1].tag = "key"
             /\ ReachesMalformedInteger(node.children[i + 2])

\* C6: a malformed integer the recursive decode reaches, at any depth, makes the
\* top-level call raise: no partial Record or List is returned.
C6_MalformedIntegerAborts ==
    (Decoded /\ ReachesMalformedInteger(element)) => result = Raise("ValueError")

\* A malformed integer two levels down, as a dict value inside an array.
C6_Witness ==
    /\ Decoded /\ element.tag = "array" /\ Len(Children) = 1
    /\ Children[1].tag = "dict" /\ Len(Children[1].children) = 2
    /\ MalformedInteger(Children[1].children[2])
    /\ IsRaise(result)

----------------------------------------------------------------------------
RECURSIVE RecordsHaveUniqueKeys(_)
RecordsHaveUniqueKeys(value) ==
    CASE value.py = "dict" ->
           /\ \A j, k \in 1..Len(value.v) :
                 value.v[j].key = value.v[k].key => j = k
           /\ \A j \in 1..Len(value.v) : RecordsHaveUniqueKeys(value.v[j].value)
      [] value.py = "list" ->
           \A j \in 1..Len(value.v) : RecordsHaveUniqueKeys(value.v[j])
      [] OTHER -> TRUE

\* C8: every Record in a decoded value has unique keys; and when a key name
\* repeats among the well-formed pairs of a dict node, the Record's keys are the
\* distinct names in first-seen order and the repeated name's single entry holds
\* the decode of its last occurrence's value node.
C8_UniqueKeysFirstSeenOrder ==
    Decoded =>
      /\ RecordsHaveUniqueKeys(result)
      /\ (element.tag = "dict" /\ WellFormedPairs(Children) /\ result.py = "dict") =>
           \A p, q \in 1..NumPairs(Children) :
              (p < q /\ PairKey(Children, p) = PairKey(Children, q)
                 /\ q = Largest(PairsOf(Children, PairKey(Children, p)))
                 /\ p = Smallest(PairsOf(Children, PairKey(Children, p))))
              => LET firsts == { Smallest(PairsOf(Children, PairKey(Children, r))) :
                                    r \in 1..NumPairs(Children) }
                     place == Cardinality({ f \in firsts : f <= p })
                 IN  /\ place <= Len(result.v)
                     /\ result.v[place] =
                          Entry(PairKey(Children, p),
                                parse_plist_value(PairValue(Children, q)))

\* [A: x, B: x, A: 42] decoded to {A: 42, B: x}: A keeps the first place and
\* holds the last value.
C8_Witness ==
    /\ Decoded
    /\ element = Node("dict", PyNone,
                      <<Leaf("key", TextA), Leaf("string", TextX),
                        Leaf("key", TextB), Leaf("string", TextX),
                        Leaf("key", TextA), Leaf("integer", PyStr(<<"4", "2">>))>>)
    /\ result = PyDict(<<Entry(TextA, PyInt(42)), Entry(TextB, TextX)>>)

----------------------------------------------------------------------------
RECURSIVE NodeCount(_)
RECURSIVE NodeCountOfAll(_)
NodeCount(node) == 1 + NodeCountOfAll(node.children)
NodeCountOfAll(nodes) ==
    IF nodes = <<>> THEN 0 ELSE NodeCount(Head(nodes)) + NodeCountOfAll(Tail(nodes))

NoRepeats(q) == \A j, k \in 1..Len(q) : q[j] = q[k] => j = k

\* In every dict frame that is on the stack before and after a step, the cursor
\* stays (while a nested call runs) or moves forward by 1 or 2; the step of a
\* loop iteration that does not call moves it by 1, the return of the
\* iteration's call moves it by 2.
CursorMovesForward ==
    /\ \A d \in 1..Len(stack) :
          (d <= Len(stack') /\ stack[d].kind = "dict" /\ stack'[d].kind = "dict")
          => /\ stack'[d].i - stack[d].i \in {0, 1, 2}
             /\ (stack'[d].i = stack[d].i) =>
                   (stack'[d].waiting \/ d < Len(stack))
    /\ (stack # <<>> /\ Top.kind = "dict" /\ Len(stack') = Len(stack)) =>
          stack'[Len(stack)].i - Top.i = IF Top.waiting THEN 2 ELSE 1

\* The execution agrees with parse_plist_value computed as a function.
StepAgreesWithFunction == pc = "done" => result = parse_plist_value(element)

\* C9: decoding terminates with work bounded by the node count (at most four
\* statements per node, and an unfinished execution can always take a step); the
\* dict cursor only moves forward, by 1 or 2 per iteration; no child is read
\* twice by its dict loop; no node is decoded twice.
C9_OnePassTermination ==
    /\ [](steps <= 4 * NodeCount(element))
    /\ [](pc = "running" => ENABLED NextStep)
    /\ [](NoRepeats(trace) /\ Len(trace) <= NodeCount(element))
    /\ [](\A d \in 1..Len(stack) : NoRepeats(stack[d].visits))
    /\ [][CursorMovesForward]_vars

\* A dict holding one key/value pair, itself the only child of an array, was
\* decoded to the end in three calls.
C9_Witness ==
    /\ pc = "done"
    /\ element.tag = "array" /\ Len(element.children) = 1
    /\ element.children[1].tag = "dict"
    /\ Len(element.children[1].children) = 2
    /\ element.children[1].children[1].tag = "key"
    /\ Len(trace) = 3
    /\ result.py = "list"

----------------------------------------------------------------------------
RECURSIVE HasEmptyKey(_)
HasEmptyKey(value) ==
    CASE value.py = "dict" ->
           \E j \in 1..Len(value.v) :
              value.v[j].key.v = <<>> \/ HasEmptyKey(value.v[j].value)
      [] value.py = "list" -> \E j \in 1..Len(value.v) : HasEmptyKey(value.v[j])
      [] OTHER -> FALSE

\* C10: a Record encoded to markup by a faithful inverse encoder and decoded
\* again is reproduced, entry order and values alike.
C10_RoundTrip == (Decoded /\ record # NoRecord) => result = record

\* The round trip does reproduce every Record no key of which is the empty
\* text, and every Record whatever its keys when the nodes are built in memory.
RoundTripOfNonEmptyKeys ==
    (Decoded /\ record # NoRecord
       /\ (~HasEmptyKey(record) \/ element = ToMarkup(record, "in memory")))
    => result = record

----------------------------------------------------------------------------
\* C11: the scalar tags are decoded by tag alone: a string node gives its text,
\* or the empty text when it has none; a date node gives its text as it is,
\* as text; a true node gives True and a false node False, whatever their text
\* and children.
C11_ScalarsByTag ==
    Decoded =>
      /\ element.tag \in {"string", "date"} =>
           result = IF element.text = PyNone \/ element.text = PyStr(<<>>)
                    THEN PyStr(<<>>)
                    ELSE PyStr(element.text.v)
      /\ element.tag = "true" => result = PyBool(TRUE)
      /\ element.tag = "false" => result = PyBool(FALSE)

\* A false node with a text and a child was decoded to False.
C11_Witness ==
    /\ Decoded
    /\ element.tag = "false" /\ element.text = PyStr(<<"x">>)
    /\ Len(Children) = 1
    /\ result = PyBool(FALSE)

----------------------------------------------------------------------------
\* The places (0-based) at which the rule of the claim finds a key with a child
\* after it, reading the children from place i on: such a key takes the next
\* child, so the reading goes on two places further; any other child is passed
\* over, one place further.
RECURSIVE PairedPlaces(_, _)
PairedPlaces(children, i) ==
    IF i >= Len(children) THEN {}
    ELSE IF children[i + 1].tag = "key" /\ i + 2 <= Len(children)
         THEN {i} \cup PairedPlaces(children, i + 2)
         ELSE PairedPlaces(children, i + 1)

\* C14: in a dict, the child after a key found at the cursor is that key's
\* value whatever its tag, and a child found at the cursor that is not such a
\* key gives no entry: the Record's names are those of the keys so paired, each
\* with the decode of the child after its last pairing; so [key K1, key K2, V]
\* gives K1 -> None and nothing for K2 or V.
C14_CursorRule ==
    (Decoded /\ element.tag = "dict" /\ result.py = "dict")
    => LET paired == PairedPlaces(Children, 0)
           NameAt(i) == Children[i + 1].text
           LastOf(name) == Largest({ i \in paired : NameAt(i) = name })
       IN  /\ { result.v[j].key : j \in 1..Len(result.v) }
                = { NameAt(i) : i \in paired }
           /\ Len(result.v) = Cardinality({ NameAt(i) : i \in paired })
           /\ \A j \in 1..Len(result.v) :
                 result.v[j].value =
                   parse_plist_value(Children[LastOf(result.v[j].key) + 2])
           /\ (/\ Len(Children) = 3
               /\ Children[1].tag = "key" /\ Children[2].tag = "key"
               /\ Children[1].text # Children[2].text)
              => result = PyDict(<<Entry(Children[1].text, PyNone)>>)

\* [key A, key B, string x] decoded to {A: None}.
C14_Witness ==
    /\ Decoded
    /\ element = Node("dict", PyNone,
                      <<Leaf("key", TextA), Leaf("key", TextB), Leaf("string", TextX)>>)
    /\ result = PyDict(<<Entry(TextA, PyNone)>>)

\* ---------------------------------------------------------------------------
\* generate_music_data: the music data built from the tracks
\* ---------------------------------------------------------------------------

TopLimit == 200
GenreLimit == 10

\* Text of a track field: a sequence of one-character strings.
UpperCase == {"A", "B"}
LowerCase == {"a", "b", "g", "k", "n", "o", "u", "w"}
WordChars == UpperCase \cup LowerCase \cup Digits \cup {"_"}
Hyphen == "-"
Unknown == <<"u", "n", "k", "n", "o", "w", "n">>

\* str.lower() on one character
lower(c) == CASE c = "A" -> "a" [] c = "B" -> "b" [] OTHER -> c

\* re.sub(r'[^\w\s-]', '', text)
RemoveSpecial(text) ==
    SelectSeq(text, LAMBDA c : c \in WordChars \/ c \in Whitespace \/ c = Hyphen)

\* re.sub(r'[-\s]+', '-', text): every run of hyphens and blanks becomes one hyphen
RECURSIVE CollapseRuns(_)
CollapseRuns(text) ==
    IF text = <<>> THEN <<>>
    ELSE IF Head(text) \in Whitespace \cup {Hyphen}
         THEN IF Len(text) > 1 /\ text[2] \in Whitespace \cup {Hyphen}
              THEN CollapseRuns(Tail(text))
              ELSE <<Hyphen>> \o CollapseRuns(Tail(text))
         ELSE <<Head(text)>> \o CollapseRuns(Tail(text))

\* str.strip('-')
RECURSIVE StripHyphens(_)
StripHyphens(text) ==
    IF text = <<>> THEN <<>>
    ELSE IF Head(text) = Hyphen THEN StripHyphens(Tail(text))
    ELSE IF text[Len(text)] = Hyphen THEN StripHyphens(SubSeq(text, 1, Len(text) - 1))
    ELSE text

slugify(text) ==
    IF text = <<>> THEN Unknown
    ELSE LET kept == CollapseRuns(RemoveSpecial(text))
         IN  StripHyphens([k \in 1..Len(kept) |-> lower(kept[k])])

\* seq[:limit]
Slice(seq, limit) == SubSeq(seq, 1, IF Len(seq) < limit THEN Len(seq) ELSE limit)

\* sorted(seq, key=..., reverse=True), keys[i] being the key of seq[i]: the
\* sort is stable, so items of equal key keep the order they have in seq.
sorted_reverse(seq, keys) ==
    LET n == Len(seq)
        rank == [i \in 1..n |->
                   1 + Cardinality({ j \in 1..n :
                         \/ keys[j] > keys[i]
                         \/ keys[j] = keys[i] /\ j < i })]
    IN  [k \in 1..n |-> seq[CHOOSE i \in 1..n : rank[i] = k]]

\* key=lambda x: x['playCount']
PlayCounts(ts) == [i \in 1..Len(ts) |-> ts[i].playCount]

SortedTracksSliceFirst(tracks_) ==
    sorted_reverse(Slice(tracks_, TopLimit), PlayCounts(Slice(tracks_, TopLimit)))
sorted_tracks(tracks_) == Slice(sorted_reverse(tracks_, PlayCounts(tracks_)), TopLimit)

\* track['slug'] = slugify(track['name'])
WithSlug(track) ==
    [id |-> track.id, name |-> track.name, artist |-> track.artist,
     album |-> track.album, genre |-> track.genre, year |-> track.year,
     playCount |-> track.playCount, slug |-> slugify(track.name)]

RECURSIVE InOrder(_)
InOrder(S) == IF S = {} THEN <<>>
              ELSE LET least == CHOOSE x \in S : \A y \in S : x <= y
                   IN  <<least>> \o InOrder(S \ {least})

\* The items of a defaultdict(list) filled by appending every track under
\* track[field]: one item per value, in the order the values first appear.
Grouped(slugged, field) ==
    LET first == { i \in 1..Len(slugged) :
                     \A j \in 1..(i - 1) : slugged[j][field] # slugged[i][field] }
        order == InOrder(first)
    IN  [k \in 1..Len(order) |->
           [name |-> slugged[order[k]][field],
            tracks |-> SelectSeq(slugged, LAMBDA t : t[field] = slugged[order[k]][field])]]

\* key=lambda x: len(x[1])
GroupSizes(groups) == [i \in 1..Len(groups) |-> Len(groups[i].tracks)]

\* sorted(groups.items(), key=lambda x: len(x[1]), reverse=True)
LargestFirst(groups) == sorted_reverse(groups, GroupSizes(groups))

AlbumEntry(group) ==
    [name |-> group.name, slug |-> slugify(group.name),
     artist |-> group.tracks[1].artist, year |-> group.tracks[1].year,
     tracks |-> group.tracks]

GroupEntry(group) ==
    [name |-> group.name, slug |-> slugify(group.name), tracks |-> group.tracks]

generate_music_data(tracks_) ==
    LET slugged == LET top == sorted_tracks(tracks_)
                   IN  [k \in 1..Len(top) |-> WithSlug(top[k])]
        all_albums == LargestFirst(Grouped(slugged, "album"))
        all_artists == LargestFirst(Grouped(slugged, "artist"))
        top_genres == Slice(LargestFirst(Grouped(slugged, "genre")), GenreLimit)
    IN  [tracks |-> slugged,
         albums |-> [k \in 1..Len(all_albums) |-> AlbumEntry(all_albums[k])],
         artists |-> [k \in 1..Len(all_artists) |-> GroupEntry(all_artists[k])],
         genres |-> [k \in 1..Len(top_genres) |-> GroupEntry(top_genres[k])]]

\* The tracks parse_tracks hands over: every one has a play count above zero
\* and its own id.  Short lists take every combination of a few track
\* profiles and play counts; long lists reach past TopLimit: a few tracks of
\* the lowest play count come first, then the play counts are all equal
\* (a = 0) or cycle along the list (a = 1), and the genres cycle.
Profiles ==
    << [name |-> <<"A", " ", "b">>, artist |-> <<"A">>, album |-> <<"A", "!">>, genre |-> <<"g">>],
       [name |-> <<>>, artist |-> <<"B">>, album |-> <<"A", "!">>, genre |-> <<"g", "g">>],
       [name |-> <<"-", "a", " ", "-", "!">>, artist |-> <<"A">>, album |-> <<"B", "_", "4">>, genre |-> <<"g">>] >>

Track(id, profile, genre, playCount) ==
    [id |-> id, name |-> profile.name, artist |-> profile.artist,
     album |-> profile.album, genre |-> genre, year |-> id,
     playCount |-> playCount]

IsShortTrackList(ts) ==
    \E n \in 0..MaxTracks :
      \E p \in [1..n -> 1..Len(Profiles)], c \in [1..n -> 1..MaxPlayCount] :
        ts = [i \in 1..n |-> Track(i, Profiles[p[i]], Profiles[p[i]].genre, c[i])]

IsLongTrackList(ts) ==
    \E n \in (TopLimit - 1)..(TopLimit + MaxExtra), low \in 0..MaxExtra,
       a \in 0..1 :
        ts = [i \in 1..n |->
                Track(i, Profiles[1 + (i % Len(Profiles))],
                      [j \in 1..(1 + (i % MaxGenres)) |-> "g"],
                      IF i <= low THEN 1 ELSE 2 + ((a * i) % MaxPlayCount))]

InitMusic ==
    /\ element = NoElement
    /\ record = NoRecord
    /\ result = NoResult
    /\ pc = "generate"
    /\ stack = <<>>
    /\ ret = NoResult
    /\ trace = <<>>
    /\ steps = 0
    /\ IsShortTrackList(tracks) \/ IsLongTrackList(tracks)
    /\ music_data = NoData
    /\ loaded = NoData
    /\ files = {}

\* main: music_data = generate_music_data(tracks).  The tracks taken into the
\* result are the dicts of the input list, so they gain their slug there too.
GenerateMusicData ==
    /\ pc = "generate"
    /\ music_data' = generate_music_data(tracks)
    /\ tracks' = [i \in 1..Len(tracks) |->
                    IF \E k \in 1..Len(music_data'.tracks) : music_data'.tracks[k].id = tracks[i].id
                    THEN WithSlug(tracks[i])
                    ELSE tracks[i]]
    /\ pc' = "generated"
    /\ UNCHANGED <<element, record, result, stack, ret, trace, steps, loaded, files>>

NextMusic == GenerateMusicData

SpecMusic == InitMusic /\ [][NextMusic]_vars

Generated == pc = "generated"

TrackIds(ts) == { ts[k].id : k \in 1..Len(ts) }

\* C12: generate_music_data returns as 'tracks' the top TopLimit tracks by play
\* count: as many tracks as the input has, up to TopLimit, each an input track
\* taken once, in non-increasing order of playCount, and no track left out
\* has a higher playCount than a track taken in.
C12_TopTracksByPlayCount ==
    Generated =>
      LET top == music_data.tracks
      IN  /\ Len(top) = IF Len(tracks) < TopLimit THEN Len(tracks) ELSE TopLimit
          /\ TrackIds(top) \subseteq TrackIds(tracks)
          /\ Cardinality(TrackIds(top)) = Len(top)
          /\ \A k \in 1..(Len(top) - 1) : top[k].playCount >= top[k + 1].playCount
          /\ \A i \in 1..Len(tracks) :
               tracks[i].id \notin TrackIds(top)
               => \A k \in 1..Len(top) : tracks[i].playCount <= top[k].playCount

C12_Witness ==
    /\ Generated
    /\ Len(tracks) > TopLimit
    /\ Len(music_data.tracks) = TopLimit
    /\ tracks[1].playCount < tracks[Len(tracks)].playCount
    /\ \E i \in 1..Len(tracks) :
         /\ tracks[i].id \notin TrackIds(music_data.tracks)
         /\ tracks[i].playCount < music_data.tracks[TopLimit].playCount

\* ---------------------------------------------------------------------------
\* update_media_paths: .png paths of music-data.json turned into .jpg paths
\* ---------------------------------------------------------------------------

MaxItems == 1

ALBUM_COVERS_DIR == "new_blog/public/media/albums"
ARTIST_IMAGES_DIR == "new_blog/public/media/artists"

DotPng == <<".", "p", "n", "g">>
DotJpg == <<".", "j", "p", "g">>
Slash == "/"

\* A key the dict does not have.
Absent == [py |-> "absent", v |-> <<>>]

\* text.endswith(suffix)
endswith(text, suffix) ==
    /\ Len(text) >= Len(suffix)
    /\ SubSeq(text, Len(text) - Len(suffix) + 1, Len(text)) = suffix

\* text.replace(old, new): every occurrence, left to right
RECURSIVE replace(_, _, _)
replace(text, old, new) ==
    IF Len(text) < Len(old) THEN text
    ELSE IF SubSeq(text, 1, Len(old)) = old
         THEN new \o replace(SubSeq(text, Len(old) + 1, Len(text)), old, new)
         ELSE <<Head(text)>> \o replace(Tail(text), old, new)

\* text.split('/')[-1]
LastPart(text) ==
    LET slashes == { i \in 1..Len(text) : text[i] = Slash }
    IN  IF slashes = {} THEN text
        ELSE SubSeq(text, 1 + (CHOOSE i \in slashes : \A j \in slashes : j <= i), Len(text))

\* png_file.with_suffix('.jpg'): the suffix starts at the last dot of the
\* name, a dot that opens or closes the name not counted.
with_suffix_jpg(name) ==
    LET dots == { i \in 2..(Len(name) - 1) : name[i] = "." }
    IN  IF dots = {} THEN name \o DotJpg
        ELSE SubSeq(name, 1, (CHOOSE i \in dots : \A j \in dots : j <= i) - 1) \o DotJpg

\* jpg_path.exists(), jpg_path = directory / f"{slug}.jpg"
JpgExistsAlways(directory, slug, fs) == TRUE
JpgExists(directory, slug, fs) == <<directory, slug \o DotJpg>> \in fs

\* One turn of a loop over albums, artists or tracks: the item and the files
\* after it.
UpdateItem(item, field, directory, unlink, fs) ==
    IF item[field].py # "absent" /\ Truthy(item[field]) /\ endswith(item[field].v, DotPng)
    THEN LET slug == replace(LastPart(item[field].v), DotPng, <<>>)
         IN  IF JpgExists(directory, slug, fs)
             THEN [item |-> [item EXCEPT ![field] = PyStr(replace(item[field].v, DotPng, DotJpg))],
                   files |-> IF unlink THEN fs \ {<<directory, slug \o DotPng>>} ELSE fs]
             ELSE [item |-> item, files |-> fs]
    ELSE [item |-> item, files |-> fs]

RECURSIVE UpdateItems(_, _, _, _, _)
UpdateItems(items, field, directory, unlink, fs) ==
    IF items = <<>> THEN [items |-> <<>>, files |-> fs]
    ELSE LET first == UpdateItem(Head(items), field, directory, unlink, fs)
             rest == UpdateItems(Tail(items), field, directory, unlink, first.files)
         IN  [items |-> <<first.item>> \o rest.items, files |-> rest.files]

\* The clean-up of one directory: every .png file whose .jpg counterpart
\* exists is removed.  No .jpg file is removed, so the order of the files in
\* the directory listing makes no difference.
CleanUp(directory, fs) ==
    fs \ { f \in fs : /\ f[1] = directory
                      /\ endswith(f[2], DotPng)
                      /\ <<directory, with_suffix_jpg(f[2])>> \in fs }

update_media_paths(data, fs) ==
    LET albums == UpdateItems(data.albums, "coverImage", ALBUM_COVERS_DIR, TRUE, fs)
        artists == UpdateItems(data.artists, "image", ARTIST_IMAGES_DIR, TRUE, albums.files)
        tracks_ == UpdateItems(data.tracks, "albumCover", ALBUM_COVERS_DIR, FALSE, artists.files)
    IN  [music_data |-> [tracks |-> tracks_.items, albums |-> albums.items,
                         artists |-> artists.items, genres |-> data.genres],
         files |-> CleanUp(ARTIST_IMAGES_DIR, CleanUp(ALBUM_COVERS_DIR, tracks_.files))]

\* The media paths generate_media.py and fetch_media.py store: the url of the
\* directory, the slug, and .png for a placeholder or .jpg for a fetched image.
\* A slug is what slugify gives, so it has no dot and no slash, and it is
\* empty for a name of special characters only.
AlbumsUrl == <<"/", "m", "e", "d", "i", "a", "/", "a", "l", "b", "u", "m", "s", "/">>
ArtistsUrl == <<"/", "m", "e", "d", "i", "a", "/", "a", "r", "t", "i", "s", "t", "s", "/">>
SlugA == <<"a">>
SlugB == <<"b", "_", "4">>
NoSlug == <<>>

CoverImages ==
    { Absent, PyStr(AlbumsUrl \o SlugA \o DotPng),
      PyStr(AlbumsUrl \o SlugB \o DotPng), PyStr(AlbumsUrl \o SlugA \o DotJpg),
      PyStr(AlbumsUrl \o NoSlug \o DotPng) }

ArtistImages ==
    { Absent, PyStr(ArtistsUrl \o SlugA \o DotPng),
      PyStr(ArtistsUrl \o SlugA \o DotJpg) }

MediaFiles ==
    { <<ALBUM_COVERS_DIR, SlugA \o DotJpg>>, <<ALBUM_COVERS_DIR, SlugA \o DotPng>>,
      <<ALBUM_COVERS_DIR, SlugB \o DotJpg>>, <<ALBUM_COVERS_DIR, NoSlug \o DotJpg>>,
      <<ARTIST_IMAGES_DIR, SlugA \o DotJpg>>, <<ARTIST_IMAGES_DIR, SlugA \o DotPng>> }

\* Only the keys update_media_paths reads or writes are kept; every other key
\* of the data goes from the file to the file as it is.  A track has the
\* albumCover of its album, or none.
IsMusicDataFile(data) ==
    \E na \in 0..MaxItems, nr \in 0..MaxItems, nt \in 0..MaxItems :
      \E covers \in [1..na -> CoverImages], images \in [1..nr -> ArtistImages],
         of \in [1..nt -> 0..na] :
        data = [tracks |-> [k \in 1..nt |->
                              [name |-> k,
                               albumCover |-> IF of[k] = 0 THEN Absent ELSE covers[of[k]]]],
                albums |-> [k \in 1..na |-> [name |-> k, coverImage |-> covers[k]]],
                artists |-> [k \in 1..nr |-> [name |-> k, image |-> images[k]]],
                genres |-> <<>>]

InitMedia ==
    /\ element = NoElement
    /\ record = NoRecord
    /\ result = NoResult
    /\ pc = "update"
    /\ stack = <<>>
    /\ ret = NoResult
    /\ trace = <<>>
    /\ steps = 0
    /\ tracks = <<>>
    /\ IsMusicDataFile(music_data)
    /\ loaded = music_data
    /\ files \in SUBSET MediaFiles

\* update_media_paths, from loading the data to the end of the clean-up
UpdateMediaPaths ==
    /\ pc = "update"
    /\ music_data' = update_media_paths(music_data, files).music_data
    /\ files' = update_media_paths(music_data, files).files
    /\ pc' = "updated"
    /\ UNCHANGED <<element, record, result, stack, ret, trace, steps, tracks, loaded>>

NextMedia == UpdateMediaPaths

SpecMedia == InitMedia /\ [][NextMedia]_vars

Updated == pc = "updated"

\* What the claim expects of one stored path: a path ending in .png has its
\* last four characters exchanged for .jpg when the directory holds the .jpg
\* file of the name after the path's last slash; any other value stays.
ExpectedPath(old, directory) ==
    IF old.py = "str" /\ Len(old.v) >= Len(DotPng)
       /\ SubSeq(old.v, Len(old.v) - Len(DotPng) + 1, Len(old.v)) = DotPng
    THEN LET stem == SubSeq(old.v, 1, Len(old.v) - Len(DotPng))
             cut == Largest({0} \cup { i \in 1..Len(stem) : stem[i] = Slash })
             jpg == SubSeq(stem, cut + 1, Len(stem)) \o DotJpg
         IN  IF <<directory, jpg>> \in files THEN PyStr(stem \o DotJpg) ELSE old
    ELSE old

PathsAsExpected(before, after, field, directory) ==
    /\ Len(after) = Len(before)
    /\ \A k \in 1..Len(before) :
         after[k] = [before[k] EXCEPT ![field] = ExpectedPath(before[k][field], directory)]

\* C13: after update_media_paths has run, every album coverImage, artist image
\* and track albumCover that ended in .png is the same path ending in .jpg if
\* the slug's .jpg file exists in the directory of its kind (album covers for
\* coverImage and albumCover, artist images for image) and is unchanged
\* otherwise; a value not ending in .png, or a missing one, is unchanged.
C13_PngToJpgWhenJpgExists ==
    Updated =>
      /\ PathsAsExpected(loaded.albums, music_data.albums, "coverImage", ALBUM_COVERS_DIR)
      /\ PathsAsExpected(loaded.artists, music_data.artists, "image", ARTIST_IMAGES_DIR)
      /\ PathsAsExpected(loaded.tracks, music_data.tracks, "albumCover", ALBUM_COVERS_DIR)

C13_Witness ==
    /\ Updated
    /\ Len(loaded.albums) = 1 /\ Len(loaded.artists) = 1 /\ Len(loaded.tracks) = 1
    /\ loaded.albums[1].coverImage = PyStr(AlbumsUrl \o SlugA \o DotPng)
    /\ music_data.albums[1].coverImage = PyStr(AlbumsUrl \o SlugA \o DotJpg)
    /\ music_data.tracks[1].albumCover = PyStr(AlbumsUrl \o SlugA \o DotJpg)
    /\ loaded.artists[1].image = PyStr(ArtistsUrl \o SlugA \o DotPng)
    /\ music_data.artists[1].image = loaded.artists[1].image
    /\ <<ALBUM_COVERS_DIR, SlugA \o DotJpg>> \in files
    /\ <<ARTIST_IMAGES_DIR, SlugA \o DotJpg>> \notin files

====
